---- MODULE Spec2Model ----
(***************************************************************************)
(* Model of the contract-verification handler `verify` of cove-backend     *)
(* (src/routes/verify.rs).  One request walks                              *)
(*   Received -> Fetching -> Cloning -> Enumerating ->                     *)
(*   (SetCwd -> RunBuild -> Compare)* -> Selecting -> Done                 *)
(* Each request owns a temporary working tree; the process-wide current    *)
(* directory `cwd` is shared by all requests of the server process.        *)
(***************************************************************************)
EXTENDS Naturals, Sequences, FiniteSets, TLC

\* ---------------------------------------------------------------- bounds
MaxProfiles == 2

\* ------------------------------------------------------- fixed vocabulary
Reqs == {"r1", "r2"}

None == "None"

Optimism == "Optimism"

Chains == {"Mainnet", Optimism, "Polygon"}

Fields == {"repo_url", "repo_commit", "contract_address"}

ArtifactIds == {"A.json", "B.json"}

Bytecodes == {"0xaa", "0xbb"}

VARIABLES
    pc,                 \* [Reqs -> position of the request in the handler]
    json,               \* [Reqs -> the request body as received]
    chainState,         \* [Reqs -> on-chain creation records for the request's address]
    foundry,            \* [Reqs -> the repository's Foundry configuration]
    creation_data,      \* [Reqs -> CreationCodeResultSet fetched by the request]
    temp_dir,           \* [Reqs -> "none" | "live" | "deleted"]
    out,                \* [Reqs -> content of <temp_dir>/out]
    cwd,                \* process-wide current directory: a request's tree or "initial"
    build_commands,     \* [Reqs -> number of enumerated build commands]
    idx,                \* [Reqs -> 1-based index of the build command being processed]
    verified_contracts, \* [Reqs -> [Chains -> ArtifactIds \cup {None}]]
    outcome,            \* [Reqs -> Pending, or how the request ended]
    did,                \* [Reqs -> set of collaborator calls the request has made]
    built               \* [Reqs -> sequence of per-profile records, in enumeration order]

vars == <<pc, json, chainState, foundry, creation_data, temp_dir, out, cwd,
          build_commands, idx, verified_contracts, outcome, did, built>>

\* ------------------------------------------------------------ data model
\* Option<X> is a set with at most one element: {} is None, {x} is Some(x).

\* The CreationRecords chain c can hold: {tx_hash, block, creation_code}.
Record(c, k) ==
    CASE k = "t1" -> [tx_hash |-> <<c, k>>, block |-> [kind |-> "Number", num |-> 10],
                      creation_code |-> "0xaa"]
      [] k = "t2" -> [tx_hash |-> <<c, k>>, block |-> [kind |-> "Number", num |-> 20],
                      creation_code |-> "0xbb"]
      [] OTHER    -> [tx_hash |-> <<c, k>>, block |-> [kind |-> "Hash", num |-> 0],
                      creation_code |-> "0xaa"]

\* CreationCodeResultSet: one Option<CreationRecord> per supported chain.
ChainQueryResponses ==
    { [c \in Chains |-> IF k[c] = None THEN {} ELSE {Record(c, k[c])}] :
        k \in [Chains -> {None, "t1", "t2", "t3"}] }

is_all_none(cd) == \A c \in Chains : cd[c] = {}

NoResponses == [c \in Chains |-> {}]

\* One build's artifact directory: per artifact path its creation bytecode
\* (None: the build wrote no such file); parse_ok is whether the directory
\* parses into an artifact set.
ArtifactDirs ==
    { [parse_ok |-> TRUE, files |-> f] : f \in [ArtifactIds -> Bytecodes \cup {None}] }
    \cup { [parse_ok |-> FALSE, files |-> [a \in ArtifactIds |-> None]] }

NoDir == [exists |-> FALSE, parse_ok |-> FALSE,
          files |-> [a \in ArtifactIds |-> None], by |-> <<None, 0>>]

\* Request bodies: which JSON fields are present, and whether the address parses.
Bodies == { [present |-> p, addr_ok |-> a] : p \in SUBSET Fields, a \in BOOLEAN }

NoBody == [present |-> {}, addr_ok |-> FALSE]

EmptyTable == [c \in Chains |-> None]

Keys(t) == { c \in Chains : t[c] # None }

Pending == [kind |-> "Pending", status |-> 0, reason |-> None, response |-> {}]

Rejected == [kind |-> "Rejected", status |-> 422, reason |-> "MissingField", response |-> {}]

Failed(reason) == [kind |-> "Failed", status |-> 400, reason |-> reason, response |-> {}]

Panicked(where) == [kind |-> "Panicked", status |-> 0, reason |-> where, response |-> {}]

Success(resp) == [kind |-> "Success", status |-> 200, reason |-> None, response |-> {resp}]

\* ------------------------------------------------------------ collaborators

\* provider.get_creation_code: the per-chain creation records of the address.
get_creation_code(r) == chainState[r]

\* provider.compare_creation_code: the MatchResultSets a build's artifacts can
\* yield against the fetched creation data.  A chain matches an artifact whose
\* creation bytecode is byte-equal to the chain's; when several artifacts
\* match one chain the one reported depends on iteration order.
Matching(files, cd, c) ==
    { a \in ArtifactIds : \E rec \in cd[c] : files[a] = rec.creation_code }

\* The orders in which a set can be iterated.
Perms(S) ==
    { f \in [1 .. Cardinality(S) -> S] :
        \A i, j \in 1 .. Cardinality(S) : f[i] = f[j] => i = j }

\* Artifact a is byte-equal to the creation code of chain c.
BytesEqual(files, cd, a, c) == \E rec \in cd[c] : files[a] = rec.creation_code

\* Inner loop: artifact a against every chain from position j of corder on.
RECURSIVE ChainLoop(_, _, _, _, _, _)
ChainLoop(m, a, corder, j, files, cd) ==
    IF j > Len(corder) THEN m
    ELSE ChainLoop(IF BytesEqual(files, cd, a, corder[j])
                   THEN [m EXCEPT ![corder[j]] = a]
                   ELSE m,
                   a, corder, j + 1, files, cd)

\* Outer loop: every artifact from position i of aorder on.
RECURSIVE ArtifactLoop(_, _, _, _, _, _)
ArtifactLoop(m, aorder, i, corder, files, cd) ==
    IF i > Len(aorder) THEN m
    ELSE ArtifactLoop(ChainLoop(m, aorder[i], corder, 1, files, cd),
                      aorder, i + 1, corder, files, cd)

\* Variant of compare_in_order that stops at the first match it finds.
compare_first_match(aorder, corder, files, cd) ==
    LET hits == { p \in (1 .. Len(aorder)) \X (1 .. Len(corder)) :
                    BytesEqual(files, cd, aorder[p[1]], corder[p[2]]) }
        first == CHOOSE p \in hits :
                    \A q \in hits : p[1] < q[1] \/ (p[1] = q[1] /\ p[2] <= q[2])
    IN  IF hits = {} THEN EmptyTable
        ELSE [EmptyTable EXCEPT ![corder[first[2]]] = aorder[first[1]]]

\* The comparison with its two iteration orders made explicit: every artifact
\* against every chain, a match recorded under the chain's key.
compare_in_order(aorder, corder, files, cd) ==
    ArtifactLoop(EmptyTable, aorder, 1, corder, files, cd)

ArtifactOrders == Perms(ArtifactIds)

ChainOrders == Perms(Chains)

compare_creation_code(files, cd) ==
    { compare_in_order(ao, co, files, cd) : ao \in ArtifactOrders, co \in ChainOrders }

\* compile::get_artifacts: the artifact set of an `out` directory, or an error
\* when the directory is missing or does not parse.
get_artifacts(dir) == [ok |-> dir.exists /\ dir.parse_ok, files |-> dir.files]

\* What running a build command in directory `dir` can produce.
BuildResults(dir) ==
    { [status |-> "spawn_err", dir_out |-> x] :
        x \in { [parse_ok |-> FALSE, files |-> [a \in ArtifactIds |-> None]] } }
    \cup { [status |-> "failed", dir_out |-> x] :
        x \in { [parse_ok |-> FALSE, files |-> [a \in ArtifactIds |-> None]] } }
    \cup IF dir \in Reqs /\ temp_dir[dir] = "live"
         THEN { [status |-> "success", dir_out |-> x] : x \in ArtifactDirs }
         ELSE {}

\* ------------------------------------------------------------ control flow

\* Variant of Exit in which the working tree outlives the request (the
\* TempDir guard was released with into_path()).
ExitKeepTree(r, oc) ==
    /\ pc' = [pc EXCEPT ![r] = "Done"]
    /\ outcome' = [outcome EXCEPT ![r] = oc]
    /\ UNCHANGED temp_dir

\* The handler returns `oc` (or unwinds): the request is over, and the
\* TempDir guard, when it exists, removes the working tree.
Exit(r, oc) ==
    /\ pc' = [pc EXCEPT ![r] = "Done"]
    /\ outcome' = [outcome EXCEPT ![r] = oc]
    /\ temp_dir' = [temp_dir EXCEPT ![r] = IF @ = "live" THEN "deleted" ELSE @]

Goto(r, p) ==
    /\ pc' = [pc EXCEPT ![r] = p]
    /\ UNCHANGED <<outcome, temp_dir>>

\* End of one iteration of `for mut build_command in build_commands`.
NextProfile(r) ==
    /\ idx' = [idx EXCEPT ![r] = @ + 1]
    /\ Goto(r, IF idx[r] + 1 > build_commands[r] THEN "Selecting" ELSE "SetCwd")

\* ------------------------------------------------------------ actions

\* Variant of AfterExtract in which no field of VerifyData is required
\* (every field an Option or #[serde(default)]).
AfterExtractLenient(r, body) == Goto(r, "Fetching")

\* VerifyData has three required String fields: a body without one of them is
\* rejected by the extractor and the handler body never runs.
AfterExtract(r, body) ==
    IF body.present # Fields
    THEN Exit(r, Rejected)
    ELSE Goto(r, "Fetching")

\* The Json<VerifyData> extractor: every field of VerifyData is required.
Receive(r) ==
    /\ pc[r] = "Received"
    /\ \E body \in Bodies :
        /\ json' = [json EXCEPT ![r] = body]
        /\ AfterExtract(r, body)
    /\ UNCHANGED <<chainState, foundry, creation_data, out, cwd, build_commands,
                   idx, verified_contracts, did, built>>

\* Variant of AfterFetch without the is_all_none early return.
AfterFetchNoCheck(r, cd) ==
    /\ pc' = [pc EXCEPT ![r] = "Cloning"]
    /\ temp_dir' = [temp_dir EXCEPT ![r] = "live"]
    /\ UNCHANGED outcome

\* After the fetch: stop when no chain has creation code, else create the TempDir.
AfterFetch(r, cd) ==
    IF is_all_none(cd)
    THEN Exit(r, Failed("NoCreationCode"))
    ELSE /\ pc' = [pc EXCEPT ![r] = "Cloning"]
         /\ temp_dir' = [temp_dir EXCEPT ![r] = "live"]
         /\ UNCHANGED outcome

Fetch(r) ==
    /\ pc[r] = "Fetching"
    /\ IF ~json[r].addr_ok
       THEN /\ Exit(r, Panicked("Address::from_str"))
            /\ UNCHANGED <<creation_data, did>>
       ELSE /\ creation_data' = [creation_data EXCEPT ![r] = get_creation_code(r)]
            /\ did' = [did EXCEPT ![r] = @ \cup {"fetch"}]
            /\ AfterFetch(r, get_creation_code(r))
    /\ UNCHANGED <<json, chainState, foundry, out, cwd, build_commands, idx,
                   verified_contracts, built>>

\* Variant of AfterClone that does not look at the clone's result.
AfterCloneIgnoreErr(r, ok) == Goto(r, "Enumerating")

\* After clone_repo_and_checkout_commit: stop when it returned an error.
AfterClone(r, ok) ==
    IF ~ok
    THEN Exit(r, Failed("CloneFailed"))
    ELSE Goto(r, "Enumerating")

Clone(r) ==
    /\ pc[r] = "Cloning"
    /\ \E ok \in BOOLEAN :
        /\ did' = [did EXCEPT ![r] = @ \cup {"clone", IF ok THEN "clone_ok" ELSE "clone_err"}]
        /\ AfterClone(r, ok)
    /\ UNCHANGED <<json, chainState, foundry, creation_data, out, cwd,
                   build_commands, idx, verified_contracts, built>>

\* compile::build_commands(path).unwrap()
Enumerate(r) ==
    /\ pc[r] = "Enumerating"
    /\ did' = [did EXCEPT ![r] = @ \cup {"enumerate"}]
    /\ IF ~foundry[r].config
       THEN /\ Exit(r, Panicked("build_commands"))
            /\ UNCHANGED <<build_commands, idx>>
       ELSE /\ build_commands' = [build_commands EXCEPT ![r] = foundry[r].profiles]
            /\ idx' = [idx EXCEPT ![r] = 1]
            /\ Goto(r, IF foundry[r].profiles = 0 THEN "Selecting" ELSE "SetCwd")
    /\ UNCHANGED <<json, chainState, foundry, creation_data, out, cwd,
                   verified_contracts, built>>

\* std::env::set_current_dir(path)
SetCurrentDir(r) ==
    /\ pc[r] = "SetCwd"
    /\ cwd' = r
    /\ Goto(r, "RunBuild")
    /\ UNCHANGED <<json, chainState, foundry, creation_data, out, build_commands,
                   idx, verified_contracts, did, built>>

\* Variant of OnBuildFailed that returns the build error to the caller.
OnBuildFailedAbort(r) ==
    /\ Exit(r, Failed("BuildFailure"))
    /\ UNCHANGED idx

\* Variant of OnBuildFailed with `break` in place of `continue`.
OnBuildFailedBreak(r) ==
    /\ idx' = [idx EXCEPT ![r] = @ + 1]
    /\ Goto(r, "Selecting")

\* `continue`: a profile that does not compile is skipped.
OnBuildFailed(r) == NextProfile(r)

\* build_command.output().unwrap(), run in the process's current directory.
RunBuild(r) ==
    /\ pc[r] = "RunBuild"
    /\ \E res \in BuildResults(cwd) :
        /\ built' = [built EXCEPT ![r] =
                Append(@, [status |-> res.status, dir |-> cwd,
                           dir_out |-> res.dir_out, matches |-> EmptyTable,
                           compared |-> FALSE])]
        /\ CASE res.status = "spawn_err" ->
                  /\ Exit(r, Panicked("output"))
                  /\ UNCHANGED <<out, idx>>
             [] res.status = "failed" ->
                  /\ OnBuildFailed(r)
                  /\ UNCHANGED out
             [] OTHER ->
                  /\ out' = [out EXCEPT ![cwd] =
                         [exists |-> TRUE, parse_ok |-> res.dir_out.parse_ok,
                          files |-> res.dir_out.files, by |-> <<r, idx[r]>>]]
                  /\ Goto(r, "Compare")
                  /\ UNCHANGED idx
    /\ UNCHANGED <<json, chainState, foundry, creation_data, cwd, build_commands,
                   verified_contracts, did>>

\* Variant of Insert that keeps an existing entry (entry().or_insert()).
InsertKeepFirst(table, matches) ==
    [c \in Chains |-> IF table[c] # None THEN table[c] ELSE matches[c]]

\* Variant of Insert that replaces the table by the profile's matches
\* (verified_contracts = matches).
InsertReplaceAll(table, matches) == matches

\* verified_contracts.insert(*chain, path.clone()) for every entry of matches.
Insert(table, matches) ==
    [c \in Chains |-> IF matches[c] # None THEN matches[c] ELSE table[c]]

\* `.unwrap()` on the result of get_artifacts: an error unwinds the handler.
OnArtifactsErr(r) == Exit(r, Panicked("get_artifacts"))

\* compile::get_artifacts(<path>/out).unwrap(), compare, record the matches.
Compare(r) ==
    /\ pc[r] = "Compare"
    /\ IF ~get_artifacts(out[r]).ok
       THEN /\ OnArtifactsErr(r)
            /\ UNCHANGED <<verified_contracts, built, idx>>
       ELSE \E m \in compare_creation_code(get_artifacts(out[r]).files, creation_data[r]) :
            /\ verified_contracts' = [verified_contracts EXCEPT ![r] = Insert(@, m)]
            /\ built' = [built EXCEPT ![r][idx[r]].matches = m,
                                      ![r][idx[r]].compared = TRUE]
            /\ NextProfile(r)
    /\ UNCHANGED <<json, chainState, foundry, creation_data, out, cwd,
                   build_commands, did>>

\* Variant of SelectedCreationData that takes the record of the first chain
\* that has one, Mainnet first.
SelectedCreationDataFirstPresent(cd) ==
    IF cd["Mainnet"] # {} THEN CHOOSE rec \in cd["Mainnet"] : TRUE
    ELSE CHOOSE rec \in cd[Optimism] : TRUE

\* creation_data.responses.get(&Chain::Optimism).unwrap().as_ref().unwrap()
SelectedCreationData(cd) == CHOOSE rec \in cd[Optimism] : TRUE

\* The SuccessfulVerification payload.
Response(r, file) ==
    [chains |-> Keys(verified_contracts[r]),
     chain |-> Optimism,
     creation_tx_hash |-> SelectedCreationData(creation_data[r]).tx_hash,
     creation_block_number |-> SelectedCreationData(creation_data[r]).block.num,
     creation_code |-> SelectedCreationData(creation_data[r]).creation_code,
     runtime_code_chain |-> Optimism,
     artifact |-> file]

\* Variant of is_empty that asks only for the favoured chain's entry.
lacks_optimism(table) == table[Optimism] = None

\* verified_contracts.is_empty()
is_empty(table) == Keys(table) = {}

\* The outcome when no profile matched any chain.
NoMatchOutcome == Failed("NoMatchingContract")

\* Everything after the loop: the empty check, the choice of the chain, the
\* artifact read and the response.
Respond(r) ==
    /\ pc[r] = "Selecting"
    /\ LET table == verified_contracts[r]
           path == table[Optimism]
       IN  IF is_empty(table)
           THEN Exit(r, NoMatchOutcome)
           ELSE IF path = None
           THEN Exit(r, Panicked("verified_contracts.get"))
           ELSE IF ~out[r].exists \/ ~out[r].parse_ok \/ out[r].files[path] = None
           THEN Exit(r, Panicked("read_to_string"))
           ELSE \E conforms \in BOOLEAN :
                IF ~conforms
                THEN Exit(r, Panicked("serde_json::from_str"))
                ELSE IF creation_data[r][Optimism] = {}
                THEN Exit(r, Panicked("responses.get"))
                ELSE IF SelectedCreationData(creation_data[r]).block.kind = "Hash"
                THEN Exit(r, Panicked("todo"))
                ELSE Exit(r, Success(Response(r,
                        [path |-> path, code |-> out[r].files[path], by |-> out[r].by])))
    /\ UNCHANGED <<json, chainState, foundry, creation_data, out, cwd,
                   build_commands, idx, verified_contracts, did, built>>

Step(r) ==
    \/ Receive(r)
    \/ Fetch(r)
    \/ Clone(r)
    \/ Enumerate(r)
    \/ SetCurrentDir(r)
    \/ RunBuild(r)
    \/ Compare(r)
    \/ Respond(r)

Next == \E r \in Reqs : Step(r)

\* ------------------------------------------------------------ initial states

\* A repository: whether it has a Foundry configuration and how many build
\* profiles that configuration defines.
Foundries ==
    { [config |-> TRUE, profiles |-> n] : n \in 0 .. MaxProfiles }
    \cup { [config |-> FALSE, profiles |-> 0] }

NoRepo == [config |-> FALSE, profiles |-> 0]

InitCommon ==
    /\ json = [r \in Reqs |-> NoBody]
    /\ creation_data = [r \in Reqs |-> NoResponses]
    /\ temp_dir = [r \in Reqs |-> "none"]
    /\ out = [r \in Reqs |-> NoDir]
    /\ cwd = "initial"
    /\ build_commands = [r \in Reqs |-> 0]
    /\ idx = [r \in Reqs |-> 0]
    /\ verified_contracts = [r \in Reqs |-> EmptyTable]
    /\ outcome = [r \in Reqs |-> Pending]
    /\ did = [r \in Reqs |-> {}]
    /\ built = [r \in Reqs |-> <<>>]

\* One request arrives; the other slot of the server stays unused.
Init ==
    /\ InitCommon
    /\ pc = [r \in Reqs |-> IF r = "r1" THEN "Received" ELSE "Off"]
    /\ \E cs \in ChainQueryResponses, f \in Foundries :
        /\ chainState = [r \in Reqs |-> IF r = "r1" THEN cs ELSE NoResponses]
        /\ foundry = [r \in Reqs |-> IF r = "r1" THEN f ELSE NoRepo]

Spec == Init /\ [][Next]_vars

\* Two requests are served by the same process at the same time.  Each is
\* for an address created on Optimism and a repository with one build profile.
InitConc ==
    /\ InitCommon
    /\ pc = [r \in Reqs |-> "Received"]
    /\ chainState = [r \in Reqs |->
            [c \in Chains |-> IF c = Optimism THEN {Record(c, "t1")} ELSE {}]]
    /\ foundry = [r \in Reqs |-> [config |-> TRUE, profiles |-> 1]]

SpecConc == InitConc /\ [][Next]_vars

\* ================================================================ claims

Resp(r) == CHOOSE x \in outcome[r].response : TRUE

Ended(r) == pc[r] = "Done"

Succeeded(r) == Ended(r) /\ outcome[r].kind = "Success"

\* Profile i of request r built successfully and its artifact directory holds
\* an artifact whose creation bytecode equals chain c's fetched creation code.
YieldsMatch(r, i, c) ==
    /\ built[r][i].status = "success"
    /\ built[r][i].dir_out.parse_ok
    /\ \E a \in ArtifactIds, rec \in creation_data[r][c] :
        built[r][i].dir_out.files[a] = rec.creation_code

Profiles(r) == 1 .. Len(built[r])

\* The chains on which the fetch found a creation record.
Found(r) == { c \in Chains : creation_data[r][c] # {} }

\* C1: if some build profile of a request builds and yields an artifact whose
\* creation bytecode equals chain C's creation bytecode, the request ends with
\* a success response whose `chains` contains C, for every supported chain C.
C1_MatchedChainReported ==
    \A r \in Reqs, c \in Chains :
        (Ended(r) /\ \E i \in Profiles(r) : YieldsMatch(r, i, c))
            => (outcome[r].kind = "Success" /\ c \in Resp(r).chains)

\* C2: when the fetched creation-code result is absent on every chain, the
\* request has ended in Failed(NoCreationCode) with status 400, and it made no
\* clone attempt, created no temporary tree and ran no build profile.
C2_NoCreationCodeStops ==
    \A r \in Reqs :
        ("fetch" \in did[r] /\ is_all_none(creation_data[r]))
            => /\ Ended(r)
               /\ outcome[r] = Failed("NoCreationCode")
               /\ outcome[r].status = 400
               /\ did[r] = {"fetch"}
               /\ temp_dir[r] = "none"
               /\ built[r] = <<>>

C2_Witness ==
    \E r \in Reqs :
        /\ "fetch" \in did[r]
        /\ is_all_none(creation_data[r])
        /\ outcome[r].reason = "NoCreationCode"

OneChainScenario(r, a) ==
    /\ Ended(r)
    /\ Found(r) = {a}
    /\ build_commands[r] = 1
    /\ Len(built[r]) = 1
    /\ YieldsMatch(r, 1, a)

\* C4: when the address has creation code on exactly one chain A and the single
\* build profile produces an exact match for A, the response is a success with
\* chains = [A], chain = A and creation_code equal to the bytecode fetched for A.
C4_OneChainScenario ==
    \A r \in Reqs, a \in Chains :
        OneChainScenario(r, a)
            => /\ outcome[r].kind = "Success"
               /\ Resp(r).chains = {a}
               /\ Resp(r).chain = a
               /\ \E rec \in chainState[r][a] :
                    Resp(r).creation_code = rec.creation_code

\* A fixed priority order over the supported chains, the favoured chain first.
Priority == <<Optimism, "Mainnet", "Polygon">>

Rank(c) == CHOOSE i \in 1 .. Len(Priority) : Priority[i] = c

Top(S) == CHOOSE c \in S : \A d \in S : Rank(c) <= Rank(d)

\* Creation code exists on exactly chains a and b, two profiles were enumerated
\* and both built; profile i matches only a and the other profile only b.
TwoChainScenario(r, a, b, i) ==
    /\ Ended(r)
    /\ a # b
    /\ Found(r) = {a, b}
    /\ build_commands[r] = 2
    /\ Len(built[r]) = 2
    /\ YieldsMatch(r, i, a) /\ ~YieldsMatch(r, i, b)
    /\ YieldsMatch(r, 3 - i, b) /\ ~YieldsMatch(r, 3 - i, a)

\* C5: when the address has creation code on chains A and B and two profiles
\* each match one of them, the success response's chains holds both A and B and
\* chain is the one a fixed priority order picks, in whichever order the two
\* profiles ran.
C5_TwoChainScenario ==
    \A r \in Reqs, a \in Chains, b \in Chains, i \in {1, 2} :
        TwoChainScenario(r, a, b, i)
            => /\ outcome[r].kind = "Success"
               /\ {a, b} \subseteq Resp(r).chains
               /\ Resp(r).chain = Top({a, b})

\* The loop ran every enumerated profile and each one exited non-zero.
AllProfilesFailed(r) ==
    /\ Ended(r)
    /\ "enumerate" \in did[r]
    /\ foundry[r].config
    /\ Len(built[r]) = build_commands[r]
    /\ \A i \in Profiles(r) : built[r][i].status = "failed"

\* C6: when every enumerated build profile fails to compile, the outcome is
\* Failed(NoMatchingContract), a 400, and not a build-level error.
C6_AllBuildsFail ==
    \A r \in Reqs :
        AllProfilesFailed(r)
            => /\ outcome[r] = Failed("NoMatchingContract")
               /\ outcome[r].status = 400

C6_Witness ==
    \E r \in Reqs :
        /\ AllProfilesFailed(r)
        /\ build_commands[r] >= 2
        /\ outcome[r].reason = "NoMatchingContract"

\* Profile i was compared and matched chain c.
Matched(r, i, c) == built[r][i].compared /\ built[r][i].matches[c] # None

AfterLoop(r) == pc[r] \in {"Selecting", "Done"}

\* C7: if two built profiles i < j both match chain c with different artifact
\* identifiers and no later profile matches c, then after the loop the table
\* entry of c is the identifier matched by j.
C7_LastWriteWins ==
    \A r \in Reqs, c \in Chains :
        \A i \in Profiles(r), j \in Profiles(r) :
            ( /\ AfterLoop(r)
              /\ i < j
              /\ Matched(r, i, c) /\ Matched(r, j, c)
              /\ built[r][i].matches[c] # built[r][j].matches[c]
              /\ \A k \in Profiles(r) : k > j => ~Matched(r, k, c) )
                => verified_contracts[r][c] = built[r][j].matches[c]

C7_Witness ==
    \E r \in Reqs, c \in Chains :
        /\ AfterLoop(r)
        /\ Len(built[r]) >= 2
        /\ Matched(r, 1, c) /\ Matched(r, 2, c)
        /\ built[r][1].matches[c] # built[r][2].matches[c]
        /\ verified_contracts[r][c] = built[r][2].matches[c]

\* C8: in every success response creation_code, creation_tx_hash and
\* creation_block_number are those of the creation record fetched for the
\* chain named in the response's chain field.
C8_CreationCodeRoundTrip ==
    \A r \in Reqs :
        Succeeded(r)
            => \E rec \in chainState[r][Resp(r).chain] :
                /\ creation_data[r][Resp(r).chain] = {rec}
                /\ Resp(r).creation_code = rec.creation_code
                /\ Resp(r).creation_tx_hash = rec.tx_hash
                /\ Resp(r).creation_block_number = rec.block.num

C8_Witness ==
    \E r \in Reqs :
        /\ Succeeded(r)
        /\ Found(r) = Chains
        /\ \E rec \in chainState[r]["Mainnet"] :
            rec.creation_code # Resp(r).creation_code

\* A profile of request r fails to compile in this step.
BuildFailsNow(r) ==
    /\ pc[r] = "RunBuild"
    /\ Len(built'[r]) = Len(built[r]) + 1
    /\ built'[r][Len(built'[r])].status = "failed"

C9_SkipStep ==
    \A r \in Reqs :
        BuildFailsNow(r)
            => /\ outcome'[r] = Pending
               /\ verified_contracts'[r] = verified_contracts[r]
               /\ idx'[r] = idx[r] + 1
               /\ pc'[r] = IF idx[r] < build_commands[r] THEN "SetCwd" ELSE "Selecting"

C9_LaterMatchKept ==
    \A r \in Reqs, c \in Chains :
        \A i \in Profiles(r), j \in Profiles(r) :
            (i < j /\ built[r][i].status = "failed" /\ Matched(r, j, c))
                => verified_contracts[r][c] # None

\* C9: a profile that fails to compile does not abort the request: the loop
\* moves to the next profile in enumeration order (or past the loop after the
\* last one) with no outcome set and the table untouched, and a match of a
\* later profile is recorded in the table.
C9_BuildFailureSkipped == [][C9_SkipStep]_vars /\ []C9_LaterMatchKept

C9_Witness ==
    \E r \in Reqs :
        /\ Succeeded(r)
        /\ Len(built[r]) = 2
        /\ built[r][1].status = "failed"
        /\ Matched(r, 2, Optimism)
        /\ Optimism \in Resp(r).chains

\* A profile of request r built, and its artifact directory fails to parse.
ArtifactParseFailsNow(r) ==
    /\ pc[r] = "Compare"
    /\ pc'[r] # "Compare"
    /\ out[r].exists
    /\ ~out[r].parse_ok

\* C10: an artifact-parse failure after a successful build is skipped: the
\* loop moves to the next profile (or past the loop) and no outcome is set by
\* that step.
C10_ParseFailureSkipped ==
    [][\A r \in Reqs :
        ArtifactParseFailsNow(r)
            => /\ outcome'[r] = Pending
               /\ pc'[r] = IF idx[r] < build_commands[r] THEN "SetCwd" ELSE "Selecting"]_vars

\* The request got past request parsing: the chain fetch was started.
EnteredCore(r) == "fetch" \in did[r]

TerminalReasons == {"NoCreationCode", "CloneFailed", "NoMatchingContract"}

\* C11: a request that entered the core ends either in a success response or
\* in Failed(reason) with reason NoCreationCode, CloneFailed or
\* NoMatchingContract; it never ends any other way (a crash of the handler).
C11_OnlySpecifiedOutcomes ==
    \A r \in Reqs :
        (EnteredCore(r) /\ Ended(r))
            => \/ outcome[r].kind = "Success"
               \/ outcome[r].kind = "Failed" /\ outcome[r].reason \in TerminalReasons

\* C13: once the temporary working tree of a request exists, every exit of the
\* request (clone failure, no match, success, abnormal exit) leaves it deleted.
C13_TreeDeletedOnExit ==
    \A r \in Reqs :
        Ended(r)
            => /\ temp_dir[r] # "live"
               /\ "clone" \in did[r] => temp_dir[r] = "deleted"

C13_Witness ==
    \E r \in Reqs :
        /\ Ended(r)
        /\ outcome[r].kind = "Panicked"
        /\ Len(built[r]) >= 1
        /\ temp_dir[r] = "deleted"

\* C14: a request whose cloned repository has no Foundry configuration is
\* answered with status 400.
C14_NoFoundryConfigIs400 ==
    \A r \in Reqs :
        (Ended(r) /\ "clone_ok" \in did[r] /\ ~foundry[r].config)
            => outcome[r].status = 400

\* The body of request r was parsed and lacks a required field.
FieldMissing(r) == pc[r] \notin {"Received", "Off"} /\ json[r].present # Fields

\* C15: a body missing a required field is rejected with 422 at request
\* parsing; no chain fetch, clone or build is started for it.
C15_MissingFieldRejected ==
    \A r \in Reqs :
        FieldMissing(r)
            => /\ Ended(r)
               /\ outcome[r] = Rejected
               /\ outcome[r].status = 422
               /\ did[r] = {}
               /\ creation_data[r] = NoResponses
               /\ temp_dir[r] = "none"
               /\ built[r] = <<>>

C15_Witness ==
    \E r \in Reqs :
        /\ FieldMissing(r)
        /\ json[r].present = {"repo_url", "repo_commit"}
        /\ outcome[r].status = 422

\* The loop has run every enumerated profile.
ReachedSelecting(r) ==
    /\ "enumerate" \in did[r]
    /\ foundry[r].config
    /\ idx[r] > build_commands[r]

\* C17: a request ends in Failed(NoMatchingContract) exactly when it got past
\* the loop with an empty table; with a non-empty table it never ends in
\* Failed(NoMatchingContract), with an empty one never in success.
C17_NoMatchIffEmptyTable ==
    \A r \in Reqs :
        Ended(r)
            => /\ outcome[r] = Failed("NoMatchingContract")
                    <=> (ReachedSelecting(r) /\ Keys(verified_contracts[r]) = {})
               /\ Keys(verified_contracts[r]) = {} => outcome[r].kind # "Success"

C17_Witness ==
    \E r \in Reqs :
        /\ Ended(r)
        /\ ReachedSelecting(r)
        /\ Keys(verified_contracts[r]) # {}
        /\ Optimism \notin Keys(verified_contracts[r])
        /\ outcome[r] # Failed("NoMatchingContract")

\* Profile idx[r] of request r is compared in this step and matches no chain.
NoMatchNow(r) ==
    /\ pc[r] = "Compare"
    /\ Len(built'[r]) >= idx[r]
    /\ built'[r][idx[r]].compared
    /\ built'[r][idx[r]].matches = EmptyTable

C20_Frame ==
    \A r \in Reqs :
        /\ \A c \in Chains :
            verified_contracts[r][c] # None => verified_contracts'[r][c] # None
        /\ BuildFailsNow(r) => verified_contracts'[r] = verified_contracts[r]
        /\ NoMatchNow(r) => verified_contracts'[r] = verified_contracts[r]

\* C20: no step removes a chain from the table, and a profile that fails to
\* build, or builds but matches no chain, leaves every entry unchanged.
C20_TableOnlyGrows == [][C20_Frame]_vars

C20_Witness ==
    \E r \in Reqs, c \in Chains :
        /\ Len(built[r]) >= 2
        /\ Matched(r, 1, c)
        /\ built[r][2].compared
        /\ built[r][2].matches = EmptyTable
        /\ verified_contracts[r][c] = built[r][1].matches[c]

\* The last profile of request r that matched chain c: the one whose insert
\* wrote the table entry of c.
LastMatching(r, c) ==
    CHOOSE j \in Profiles(r) :
        /\ Matched(r, j, c)
        /\ \A k \in Profiles(r) : Matched(r, k, c) => k <= j

\* C18: in every success response the artifact the provenance fields are read
\* from is the one that matched the representative chain: it was written by
\* the profile that matched, and its creation bytecode is the chain's, also
\* when a later profile rebuilt the `out` directory without matching the chain.
C18_ProvenanceOfMatchingArtifact ==
    \A r \in Reqs :
        Succeeded(r)
            => /\ \E j \in Profiles(r) : Matched(r, j, Resp(r).chain)
               /\ Resp(r).artifact.by = <<r, LastMatching(r, Resp(r).chain)>>
               /\ \E rec \in creation_data[r][Resp(r).chain] :
                    Resp(r).artifact.code = rec.creation_code

\* Request r is about to compare the artifact set of its `out` directory.
Comparing(r) == pc[r] = "Compare" /\ get_artifacts(out[r]).ok

\* Every iteration order of the artifacts and of the chains gives the same
\* MatchResultSet for the inputs request r is about to compare.
OrderIndependent(r) ==
    \A m1 \in compare_creation_code(out[r].files, creation_data[r]) :
        \A m2 \in compare_creation_code(out[r].files, creation_data[r]) : m1 = m2

\* At most one artifact is byte-equal to each chain's creation code.
UniqueMatches(r) ==
    \A c \in Chains : Cardinality(Matching(out[r].files, creation_data[r], c)) <= 1

C12_RequestsIsolated ==
    \A r \in Reqs :
        /\ \A i \in Profiles(r) : built[r][i].dir = r
        /\ (pc[r] = "Compare" /\ out[r].exists) => out[r].by = <<r, idx[r]>>

\* C19: in every success response each chain of `chains` has a creation
\* record and an artifact matching it was produced by some successfully built
\* profile of this request, and `chain` is a member of `chains`.
C19_ChainsSound ==
    \A r \in Reqs :
        Succeeded(r)
            => /\ \A c \in Resp(r).chains :
                    /\ creation_data[r][c] # {}
                    /\ \E i \in Profiles(r) : YieldsMatch(r, i, c)
               /\ Resp(r).chain \in Resp(r).chains

====
